---- MODULE Spec2Model ----
(***************************************************************************)
(* Three HTTP page fetchers (traditional.cpp, async.cpp, modern.cpp) run   *)
(* against one and the same resolver answer and network behaviour.         *)
(*                                                                         *)
(* The network is an oracle fixed in the initial state:                    *)
(*   resolveErr  the resolver reports an error                             *)
(*   connOk      the candidate list, in resolver order; connOk[i] says     *)
(*               whether candidate i accepts the connection                *)
(*   sendOk      whether sending the request on the open connection works  *)
(*   reads       the lengths of the chunks the successive reads return     *)
(*   endErr      the error code of the read that ends the stream           *)
(* The server's response is the byte stream 1, 2, 3, ...: every byte is    *)
(* its own position, so a dropped, duplicated or reordered byte shows.     *)
(* A candidate iterator is an index into connOk; End is the default        *)
(* constructed (past-the-end) iterator.                                    *)
(***************************************************************************)
EXTENDS Integers, Sequences, FiniteSets, TLC

\* Bounds of the model.
MaxCand == 2        \* longest candidate list the resolver returns
MaxReads == 2       \* most reads that return data before the stream ends
IoBufferSize == 2   \* size of the read buffer (1024 in the sources)

VARIABLES
    \* the network oracle
    resolveErr, connOk, sendOk, reads, endErr,
    \* traditional.cpp: Request::Fetch, blocking, on the calling thread
    t_pc, t_address_it, t_sck, t_reply, t_ec, t_rval, t_result, t_nread, t_log,
    t_socks,
    \* async.cpp: the Request object and its io_service
    a_thread, a_pending, a_sck_, a_io_buffer_, a_result_buffer_, a_result_,
    a_sets, a_nread, a_log, a_socks, a_request, a_wire,
    \* modern.cpp: the Request object, its io_service and the coroutine Fetch_
    m_thread, m_pc, m_address_it, m_sck, m_reply, m_ec, m_rval, m_result_,
    m_sets, m_nread, m_log, m_socks,
    \* the process: which program it runs, where its main is, what it wrote
    \* and how it ended
    prog, main, std_out, std_err, exit_code,
    \* what the future was when Fetch obtained it from the promise
    future

netVars == <<resolveErr, connOk, sendOk, reads, endErr>>
tVars == <<t_pc, t_address_it, t_sck, t_reply, t_ec, t_rval, t_result, t_nread, t_log,
           t_socks>>
aVars == <<a_thread, a_pending, a_sck_, a_io_buffer_, a_result_buffer_, a_result_,
           a_sets, a_nread, a_log, a_socks, a_request, a_wire>>
mVars == <<m_thread, m_pc, m_address_it, m_sck, m_reply, m_ec, m_rval, m_result_,
           m_sets, m_nread, m_log, m_socks>>
procVars == <<prog, main, std_out, std_err, exit_code, future>>
vars == <<netVars, tVars, aVars, mVars, procVars>>

-----------------------------------------------------------------------------
\* Error codes, exceptions and results

NoError == "success"
Eof == "eof"                      \* boost::asio::error::eof
Reset == "connection_reset"       \* any other read error
ConnRefused == "connection_refused"
HostNotFound == "host_not_found"
BrokenPipe == "broken_pipe"

\* what() of the exceptions the sources throw; a boost::system::system_error
\* thrown by the library is named after the operation that failed.
SysResolve == "system_error: resolve"
SysConnect == "system_error: connect"
SysWrite == "system_error: write"
TradNoAddress == "Failed to connect to all/any address"
AsyncNoResolve == "Failed to resolve host"
AsyncNoSend == "Failed to send request"
ModernNoHost == "Unable to connect to any host"

NoResult == [state |-> "empty", value |-> <<>>, what |-> ""]
Value(v) == [state |-> "value", value |-> v, what |-> ""]
Exception(w) == [state |-> "exception", value |-> <<>>, what |-> w]

\* std::promise::set_value / set_exception: the shared state is written once;
\* a second call leaves it as it is (it throws promise_already_satisfied).
set_value(p, v) == IF p.state = "empty" THEN Value(v) ELSE p
set_exception(p, w) == IF p.state = "empty" THEN Exception(w) ELSE p

-----------------------------------------------------------------------------
\* The network oracle

End == Len(connOk) + 1            \* the past-the-end iterator
Begin == IF resolveErr THEN End ELSE 1

RECURSIVE Sum(_)
Sum(s) == IF s = <<>> THEN 0 ELSE s[1] + Sum(Tail(s))

\* The bytes of the k-th chunk: the next reads[k] bytes of the stream.
Chunk(k) == LET off == Sum(SubSeq(reads, 1, k - 1))
            IN [j \in 1..reads[k] |-> off + j]

\* Everything the server sends before the stream ends.
Stream == [j \in 1..Sum(reads) |-> j]

\* read_some / async_read_some, the n-th read on the connection (n counted
\* from 0): <<error code, bytes transferred, buffer afterwards>>. A read
\* that returns data overwrites only the first bytes of the buffer; a read
\* that fails transfers nothing.
ReadSome(n, buf) ==
    IF n < Len(reads)
    THEN <<NoError, reads[n + 1],
           [j \in 1..IoBufferSize |->
               IF j <= reads[n + 1] THEN Chunk(n + 1)[j] ELSE buf[j]]>>
    ELSE <<endErr, 0, buf>>

\* char reply[1024] {} / char io_buffer_[1024] = {}
ZeroBuffer == [j \in 1..IoBufferSize |-> 0]

\* Mutant of StrAppend: the whole buffer is appended, not its first n bytes.
StrAppend_WholeBuffer(str, buf, n) == str \o buf

\* std::string::append(const char* s, size_t n)
StrAppend(str, buf, n) == str \o SubSeq(buf, 1, n)

\* First candidate at or after from that accepts, End when none does.
RECURSIVE FirstOk(_)
FirstOk(from) == IF from >= End THEN End
                 ELSE IF connOk[from] THEN from ELSE FirstOk(from + 1)

Ev(op, it) == <<op, it>>

RECURSIVE ConnectEvents(_, _)
ConnectEvents(from, to) ==
    IF from > to THEN <<>> ELSE <<Ev("connect", from)>> \o ConnectEvents(from + 1, to)

\* The tcp::socket objects a fetch has constructed, in order: the candidate
\* the socket is for, whether a connect is outstanding on it, and whether
\* the object still exists.
Connecting(ep) == [ep |-> ep, connecting |-> TRUE, live |-> TRUE]
Connected(ep, ok) == [ep |-> ep, connecting |-> FALSE, live |-> ok]
\* The outstanding connect has completed.
Complete(socks) == [k \in DOMAIN socks |-> [socks[k] EXCEPT !.connecting = FALSE]]
\* Variant of Destroy: the replaced socket object is kept alive.
Destroy_Keeps(socks) == socks

\* The socket object is destroyed (end of scope, or unique_ptr reset).
Destroy(socks) == [k \in DOMAIN socks |-> [socks[k] EXCEPT !.live = FALSE]]

CandLists == UNION {[1..n -> BOOLEAN] : n \in 0..MaxCand}
ReadSeqs == UNION {[1..k -> 1..IoBufferSize] : k \in 0..MaxReads}

NetInit ==
    /\ resolveErr \in BOOLEAN
    /\ connOk \in CandLists
    /\ resolveErr => connOk = <<>>
    /\ sendOk \in BOOLEAN
    /\ reads \in ReadSeqs
    /\ endErr \in {Eof, Reset}

-----------------------------------------------------------------------------
\* traditional.cpp: Request::Fetch. Each action is one blocking call and the
\* code that follows it up to the next blocking call.

T_Init ==
    /\ t_pc = "resolve"
    /\ t_address_it = 0
    /\ t_sck = 0
    /\ t_reply = ZeroBuffer
    /\ t_ec = NoError
    /\ t_rval = <<>>
    /\ t_result = NoResult
    /\ t_nread = 0
    /\ t_log = <<>>
    /\ t_socks = <<>>

\* resolver.resolve({host, "80"}) and the loop test of the first iteration.
T_Resolve ==
    /\ t_pc = "resolve"
    /\ IF resolveErr
       THEN /\ t_result' = Exception(SysResolve)
            /\ t_pc' = "done"
            /\ UNCHANGED t_address_it
       ELSE /\ t_address_it' = Begin
            /\ IF Begin # End
               THEN t_pc' = "connect" /\ UNCHANGED t_result
               ELSE t_pc' = "done" /\ t_result' = Exception(TradNoAddress)
    /\ UNCHANGED <<t_sck, t_reply, t_ec, t_rval, t_nread, t_log>>
    /\ UNCHANGED t_socks
    /\ UNCHANGED <<netVars, aVars, mVars, procVars>>

\* boost::asio::connect(sck, address_it): the range connect, which tries
\* address_it and every candidate after it until one accepts and throws
\* the last error when none does.
T_Connect ==
    /\ t_pc = "connect"
    /\ LET to == FirstOk(t_address_it)
       IN IF to = End
          THEN /\ t_log' = t_log \o ConnectEvents(t_address_it, End - 1)
               /\ t_result' = Exception(SysConnect)
               /\ t_pc' = "done"
               /\ t_socks' = Append(t_socks, Connected(End - 1, FALSE))
               /\ UNCHANGED t_sck
          ELSE /\ t_log' = t_log \o ConnectEvents(t_address_it, to)
               /\ t_sck' = to
               /\ t_socks' = Append(t_socks, Connected(to, TRUE))
               /\ t_pc' = "write"
               /\ UNCHANGED t_result
    /\ UNCHANGED <<t_address_it, t_reply, t_ec, t_rval, t_nread>>
    /\ UNCHANGED <<netVars, aVars, mVars, procVars>>

\* boost::asio::write(sck, buffer(GetRequest(host))), then the declaration
\* of reply and ec and the first test of while(!ec).
T_Write ==
    /\ t_pc = "write"
    /\ t_log' = Append(t_log, Ev("write", t_sck))
    /\ IF sendOk
       THEN /\ t_reply' = ZeroBuffer
            /\ t_ec' = NoError
            /\ t_pc' = "read"
            /\ UNCHANGED t_result
       ELSE /\ t_result' = Exception(SysWrite)
            /\ t_pc' = "done"
            /\ UNCHANGED <<t_reply, t_ec>>
    /\ UNCHANGED <<t_address_it, t_sck, t_rval, t_nread>>
    /\ t_socks' = IF sendOk THEN t_socks ELSE Destroy(t_socks)
    /\ UNCHANGED <<netVars, aVars, mVars, procVars>>

\* Mutant of T_Read: a stream that ends before any byte arrived counts as a
\* failed candidate and the loop goes on to the next one.
T_Read_RetriesEmpty ==
    /\ t_pc = "read"
    /\ LET r == ReadSome(t_nread, t_reply)
           rval == t_rval \o SubSeq(r[3], 1, r[2])
       IN /\ t_ec' = r[1]
          /\ t_reply' = r[3]
          /\ t_rval' = rval
          /\ IF r[1] = NoError
             THEN t_pc' = "read" /\ UNCHANGED <<t_result, t_address_it>>
             ELSE IF rval = <<>>
             THEN /\ t_address_it' = t_sck + 1
                  /\ IF t_sck + 1 # End
                     THEN t_pc' = "connect" /\ UNCHANGED t_result
                     ELSE t_pc' = "done" /\ t_result' = Exception(TradNoAddress)
             ELSE /\ t_pc' = "done"
                  /\ t_result' = Value(rval)
                  /\ UNCHANGED t_address_it
    /\ t_nread' = t_nread + 1
    /\ t_log' = Append(t_log, Ev("read", t_sck))
    /\ UNCHANGED t_sck
    /\ t_socks' = IF t_ec' = NoError THEN t_socks ELSE Destroy(t_socks)
    /\ UNCHANGED <<netVars, aVars, mVars, procVars>>

\* sck.read_some(reply, ec), rval.append(reply, rlen), the test of
\* while(!ec) and, when the loop ends, return rval.
T_Read ==
    /\ t_pc = "read"
    /\ LET r == ReadSome(t_nread, t_reply)
           rval == StrAppend(t_rval, r[3], r[2])
       IN /\ t_ec' = r[1]
          /\ t_reply' = r[3]
          /\ t_rval' = rval
          /\ IF r[1] = NoError
             THEN t_pc' = "read" /\ UNCHANGED t_result
             ELSE t_pc' = "done" /\ t_result' = Value(rval)
    /\ t_nread' = t_nread + 1
    /\ t_log' = Append(t_log, Ev("read", t_sck))
    /\ UNCHANGED <<t_address_it, t_sck>>
    /\ t_socks' = IF t_ec' = NoError THEN t_socks ELSE Destroy(t_socks)
    /\ UNCHANGED <<netVars, aVars, mVars, procVars>>

NextTrad ==
    \/ T_Resolve
    \/ T_Connect
    \/ T_Write
    \/ T_Read

-----------------------------------------------------------------------------
\* async.cpp: the callbacks of Request. a_pending is the one operation or
\* posted task the io_service holds; each action is the io_service invoking
\* the handler of the completed operation, on the worker thread.

None == [op |-> "none", it |-> 0]
Pending(op, it) == [op |-> op, it |-> it]

A_Init ==
    /\ a_thread = "none"
    /\ a_pending = None
    /\ a_sck_ = 0
    /\ a_io_buffer_ = ZeroBuffer
    /\ a_result_buffer_ = <<>>
    /\ a_result_ = NoResult
    /\ a_sets = <<>>
    /\ a_nread = 0
    /\ a_log = <<>>
    /\ a_socks = <<>>
    /\ a_request = "none"
    /\ a_wire = "none"

\* Request::Fetch: the thread is started and its lambda calls
\* resolver_.async_resolve before it enters io_service_.run().
A_Fetch ==
    /\ a_thread = "none"
    /\ a_thread' = "running"
    /\ a_pending' = Pending("resolve", 0)
    /\ UNCHANGED <<a_sck_, a_io_buffer_, a_result_buffer_, a_result_, a_sets,
                   a_nread, a_log>>
    /\ UNCHANGED a_socks
    /\ UNCHANGED <<a_request, a_wire>>
    /\ UNCHANGED <<netVars, tVars, mVars, procVars>>

\* Request::OnResolved(error, iterator)
OnResolved(error, iterator) ==
    IF error # NoError \/ iterator = End
    THEN /\ a_result_' = set_exception(a_result_, AsyncNoResolve)
         /\ a_sets' = Append(a_sets, "set_exception")
         /\ a_pending' = None
         /\ UNCHANGED <<a_sck_, a_log, a_socks>>
    ELSE /\ a_sck_' = iterator
         /\ a_socks' = Append(Destroy(a_socks), Connecting(iterator))
         /\ a_log' = Append(a_log, Ev("connect", iterator))
         /\ a_pending' = Pending("connect", iterator)
         /\ UNCHANGED <<a_result_, a_sets>>

\* Mutant of OnConnected: a failed connect starts nothing more.
OnConnected_NoRetry(iterator, error) ==
    IF error # NoError
    THEN /\ a_pending' = None
         /\ UNCHANGED <<a_log, a_request>>
    ELSE /\ a_log' = Append(a_log, Ev("write", a_sck_))
         /\ a_pending' = Pending("write", iterator)
         /\ a_request' = "destroyed"

\* Mutant of OnConnected: the iterator is not advanced before the retry.
OnConnected_SameCandidate(iterator, error) ==
    IF error # NoError
    THEN /\ a_pending' = Pending("post", iterator)
         /\ UNCHANGED <<a_log, a_request>>
    ELSE /\ a_log' = Append(a_log, Ev("write", a_sck_))
         /\ a_pending' = Pending("write", iterator)
         /\ a_request' = "destroyed"

\* Request::OnConnected(iterator, error). The request is the temporary
\* std::string GetRequest(host_) returns; boost::asio::buffer only points at
\* it, and it is destroyed at the end of the async_write statement, before
\* OnConnected returns.
OnConnected(iterator, error) ==
    IF error # NoError
    THEN /\ a_pending' = Pending("post", iterator + 1)
         /\ UNCHANGED <<a_log, a_request>>
    ELSE /\ a_log' = Append(a_log, Ev("write", a_sck_))
         /\ a_pending' = Pending("write", iterator)
         /\ a_request' = "destroyed"

\* Request::FetchMoreData()
FetchMoreData ==
    /\ a_log' = Append(a_log, Ev("read", a_sck_))
    /\ a_pending' = Pending("read", a_sck_)

\* Mutant of OnSentRequest: the failure is reported and the reply is
\* fetched all the same.
OnSentRequest_FallsThrough(error) ==
    IF error # NoError
    THEN /\ a_result_' = set_exception(a_result_, AsyncNoSend)
         /\ a_sets' = Append(a_sets, "set_exception")
         /\ FetchMoreData
    ELSE /\ FetchMoreData
         /\ UNCHANGED <<a_result_, a_sets>>

\* Request::OnSentRequest(error)
OnSentRequest(error) ==
    IF error # NoError
    THEN /\ a_result_' = set_exception(a_result_, AsyncNoSend)
         /\ a_sets' = Append(a_sets, "set_exception")
         /\ a_pending' = None
         /\ UNCHANGED a_log
    ELSE /\ FetchMoreData
         /\ UNCHANGED <<a_result_, a_sets>>

\* Mutant of OnDataRead: only end-of-stream completes the fetch, any other
\* error fails it.
OnDataRead_Strict(error, bytes_transferred) ==
    IF error = Eof
    THEN /\ a_result_' = set_value(a_result_, a_result_buffer_)
         /\ a_sets' = Append(a_sets, "set_value")
         /\ a_result_buffer_' = <<>>
         /\ a_pending' = None
         /\ UNCHANGED a_log
    ELSE IF error # NoError
    THEN /\ a_result_' = set_exception(a_result_, AsyncNoSend)
         /\ a_sets' = Append(a_sets, "set_exception")
         /\ a_pending' = None
         /\ UNCHANGED <<a_result_buffer_, a_log>>
    ELSE /\ a_result_buffer_' =
                StrAppend(a_result_buffer_, a_io_buffer_', bytes_transferred)
         /\ FetchMoreData
         /\ UNCHANGED <<a_result_, a_sets>>

\* Mutant of OnDataRead: the return after set_value is missing.
OnDataRead_KeepsReading(error, bytes_transferred) ==
    /\ IF error # NoError
       THEN /\ a_result_' = set_value(a_result_, a_result_buffer_)
            /\ a_sets' = Append(a_sets, "set_value")
            /\ a_result_buffer_' = <<>>
       ELSE /\ a_result_buffer_' =
                   StrAppend(a_result_buffer_, a_io_buffer_', bytes_transferred)
            /\ UNCHANGED <<a_result_, a_sets>>
    /\ FetchMoreData

\* Variant of OnDataRead: completion is signalled with what has been
\* accumulated after the first chunk, and the reading goes on.
OnDataRead_SignalsEarly(error, bytes_transferred) ==
    IF error # NoError
    THEN /\ a_result_' = set_value(a_result_, a_result_buffer_)
         /\ a_sets' = Append(a_sets, "set_value")
         /\ a_result_buffer_' = <<>>
         /\ a_pending' = None
         /\ UNCHANGED a_log
    ELSE /\ a_result_buffer_' =
                StrAppend(a_result_buffer_, a_io_buffer_', bytes_transferred)
         /\ a_result_' = set_value(a_result_, a_result_buffer_')
         /\ a_sets' = Append(a_sets, "set_value")
         /\ FetchMoreData

\* Request::OnDataRead(error, bytes_transferred); a_io_buffer_' is the
\* buffer as the completed read left it. The moved-from result_buffer_ is
\* empty.
OnDataRead(error, bytes_transferred) ==
    IF error # NoError
    THEN /\ a_result_' = set_value(a_result_, a_result_buffer_)
         /\ a_sets' = Append(a_sets, "set_value")
         /\ a_result_buffer_' = <<>>
         /\ a_pending' = None
         /\ UNCHANGED a_log
    ELSE /\ a_result_buffer_' =
                StrAppend(a_result_buffer_, a_io_buffer_', bytes_transferred)
         /\ FetchMoreData
         /\ UNCHANGED <<a_result_, a_sets>>

\* async_resolve completes: OnResolved gets the resolver's answer.
A_Resolved ==
    /\ a_thread = "running"
    /\ a_pending.op = "resolve"
    /\ OnResolved(IF resolveErr THEN HostNotFound ELSE NoError, Begin)
    /\ UNCHANGED <<a_thread, a_io_buffer_, a_result_buffer_, a_nread>>
    /\ UNCHANGED <<a_request, a_wire>>
    /\ UNCHANGED <<netVars, tVars, mVars, procVars>>

\* The task OnConnected posted runs: OnResolved(error_code(), iterator).
A_Posted ==
    /\ a_thread = "running"
    /\ a_pending.op = "post"
    /\ OnResolved(NoError, a_pending.it)
    /\ UNCHANGED <<a_thread, a_io_buffer_, a_result_buffer_, a_nread>>
    /\ UNCHANGED <<a_request, a_wire>>
    /\ UNCHANGED <<netVars, tVars, mVars, procVars>>

\* async_connect completes.
A_Connected ==
    /\ a_thread = "running"
    /\ a_pending.op = "connect"
    /\ OnConnected(a_pending.it,
                   IF connOk[a_pending.it] THEN NoError ELSE ConnRefused)
    /\ UNCHANGED <<a_thread, a_sck_, a_io_buffer_, a_result_buffer_, a_result_,
                   a_sets, a_nread>>
    /\ a_socks' = Complete(a_socks)
    /\ UNCHANGED a_wire
    /\ UNCHANGED <<netVars, tVars, mVars, procVars>>

\* What the write operation puts on the wire. It reads the bytes through
\* the buffer it was given; when the std::string behind that buffer has been
\* destroyed the read is undefined: the storage may still hold the request,
\* or anything else.
WriteOutcomes ==
    IF a_request = "destroyed" THEN {"request", "garbage"} ELSE {"request"}

\* async_write completes.
A_SentRequest ==
    /\ a_thread = "running"
    /\ a_pending.op = "write"
    /\ OnSentRequest(IF sendOk THEN NoError ELSE BrokenPipe)
    /\ UNCHANGED <<a_thread, a_sck_, a_io_buffer_, a_result_buffer_, a_nread>>
    /\ UNCHANGED a_socks
    /\ a_wire' \in WriteOutcomes
    /\ UNCHANGED a_request
    /\ UNCHANGED <<netVars, tVars, mVars, procVars>>

\* async_read_some completes: the data is in io_buffer_.
A_DataRead ==
    /\ a_thread = "running"
    /\ a_pending.op = "read"
    /\ LET r == ReadSome(a_nread, a_io_buffer_)
       IN /\ a_io_buffer_' = r[3]
          /\ a_nread' = a_nread + 1
          /\ OnDataRead(r[1], r[2])
    /\ UNCHANGED <<a_thread, a_sck_>>
    /\ UNCHANGED a_socks
    /\ UNCHANGED <<a_request, a_wire>>
    /\ UNCHANGED <<netVars, tVars, mVars, procVars>>

\* main has returned: its local req, a Request, is destroyed (io_service_,
\* resolver_, result_, sck_), whatever the detached thread is doing.
ReqDestroyed == prog \in {"async", "modern"} /\ main = "returned"

\* How the worker thread leaves io_service_.run(). On a live io_service it
\* returns and the thread exits; on a destroyed one the access is undefined:
\* the thread may exit as if nothing had happened, or fault.
RunOutcomes == IF ReqDestroyed THEN {"exited", "crashed"} ELSE {"exited"}

\* io_service_.run() returns when nothing is pending; the thread exits.
A_RunReturns ==
    /\ a_thread = "running"
    /\ a_pending = None
    /\ a_thread' \in RunOutcomes
    /\ UNCHANGED <<a_pending, a_sck_, a_io_buffer_, a_result_buffer_, a_result_,
                   a_sets, a_nread, a_log, a_socks>>
    /\ UNCHANGED a_socks
    /\ UNCHANGED <<a_request, a_wire>>
    /\ UNCHANGED <<netVars, tVars, mVars, procVars>>

NextAsync ==
    \/ A_Fetch
    \/ A_Resolved
    \/ A_Posted
    \/ A_Connected
    \/ A_SentRequest
    \/ A_DataRead
    \/ A_RunReturns

-----------------------------------------------------------------------------
\* modern.cpp: the coroutine Request::Fetch_. m_pc names the operation the
\* coroutine is suspended in; each action is the io_service resuming it, on
\* the worker thread, up to its next suspension or its return.

M_Init ==
    /\ m_thread = "none"
    /\ m_pc = "idle"
    /\ m_address_it = 0
    /\ m_sck = 0
    /\ m_reply = ZeroBuffer
    /\ m_ec = NoError
    /\ m_rval = <<>>
    /\ m_result_ = NoResult
    /\ m_sets = <<>>
    /\ m_nread = 0
    /\ m_log = <<>>
    /\ m_socks = <<>>

\* Request::Fetch: spawn queues Fetch_, then the thread that runs
\* io_service_.run() is started.
M_Fetch ==
    /\ m_thread = "none"
    /\ m_thread' = "running"
    /\ m_pc' = "spawned"
    /\ UNCHANGED <<m_address_it, m_sck, m_reply, m_ec, m_rval, m_result_,
                   m_sets, m_nread, m_log>>
    /\ UNCHANGED m_socks
    /\ UNCHANGED <<netVars, tVars, aVars, procVars>>

\* Fetch_ starts: rval, ec, the resolver, and resolver.async_resolve.
M_Start ==
    /\ m_thread = "running"
    /\ m_pc = "spawned"
    /\ m_pc' = "resolve"
    /\ UNCHANGED <<m_thread, m_address_it, m_sck, m_reply, m_ec, m_rval,
                   m_result_, m_sets, m_nread, m_log>>
    /\ UNCHANGED m_socks
    /\ UNCHANGED <<netVars, tVars, aVars, procVars>>

\* catch(...) { result_.set_exception(std::current_exception()); return; }
Catch(what) ==
    /\ m_result_' = set_exception(m_result_, what)
    /\ m_sets' = Append(m_sets, "set_exception")
    /\ m_pc' = "done"

\* for(; address_it != addr_end; ++address_it) entered or continued with
\* address_it = it: the socket and async_connect, or, past the last
\* candidate, throw std::runtime_error("Unable to connect to any host").
ForLoop(it) ==
    /\ m_address_it' = it
    /\ IF it # End
       THEN /\ m_sck' = it
            /\ m_socks' = Append(Destroy(Complete(m_socks)), Connecting(it))
            /\ m_log' = Append(m_log, Ev("connect", it))
            /\ m_pc' = "connect"
            /\ UNCHANGED <<m_result_, m_sets>>
       ELSE /\ Catch(ModernNoHost)
            /\ m_socks' = Destroy(Complete(m_socks))
            /\ UNCHANGED <<m_sck, m_log>>

\* Mutant of M_Resolved: the resolver's error is not looked at.
M_Resolved_IgnoresError ==
    /\ m_thread = "running"
    /\ m_pc = "resolve"
    /\ ForLoop(Begin)
    /\ UNCHANGED <<m_thread, m_reply, m_ec, m_rval, m_nread>>
    /\ UNCHANGED <<netVars, tVars, aVars, procVars>>

\* async_resolve(..., yield) returns the iterator or throws.
M_Resolved ==
    /\ m_thread = "running"
    /\ m_pc = "resolve"
    /\ IF resolveErr
       THEN /\ Catch(SysResolve)
            /\ UNCHANGED <<m_address_it, m_sck, m_log, m_socks>>
       ELSE ForLoop(Begin)
    /\ UNCHANGED <<m_thread, m_reply, m_ec, m_rval, m_nread>>
    /\ UNCHANGED <<netVars, tVars, aVars, procVars>>

\* Mutant of M_Connected: a failed connect leaves the loop.
M_Connected_Breaks ==
    /\ m_thread = "running"
    /\ m_pc = "connect"
    /\ m_ec' = IF connOk[m_address_it] THEN NoError ELSE ConnRefused
    /\ IF m_ec' # NoError
       THEN /\ Catch(ModernNoHost)
            /\ m_socks' = Destroy(Complete(m_socks))
            /\ UNCHANGED <<m_address_it, m_sck, m_log>>
       ELSE /\ m_log' = Append(m_log, Ev("write", m_sck))
            /\ m_socks' = Complete(m_socks)
            /\ m_pc' = "write"
            /\ UNCHANGED <<m_address_it, m_sck, m_result_, m_sets>>
    /\ UNCHANGED <<m_thread, m_reply, m_rval, m_nread>>
    /\ UNCHANGED <<netVars, tVars, aVars, procVars>>

\* Mutant of M_Connected: ec is not looked at after async_connect.
M_Connected_NoCheck ==
    /\ m_thread = "running"
    /\ m_pc = "connect"
    /\ m_ec' = IF connOk[m_address_it] THEN NoError ELSE ConnRefused
    /\ m_log' = Append(m_log, Ev("write", m_sck))
    /\ m_pc' = "write"
    /\ UNCHANGED <<m_address_it, m_sck, m_result_, m_sets>>
    /\ UNCHANGED <<m_thread, m_reply, m_rval, m_nread>>
    /\ m_socks' = Complete(m_socks)
    /\ UNCHANGED <<netVars, tVars, aVars, procVars>>

\* sck.async_connect(*address_it, yield[ec]) returns: continue on an error,
\* otherwise async_write(sck, buffer(GetRequest(host)), yield).
M_Connected ==
    /\ m_thread = "running"
    /\ m_pc = "connect"
    /\ m_ec' = IF connOk[m_address_it] THEN NoError ELSE ConnRefused
    /\ IF m_ec' # NoError
       THEN ForLoop(m_address_it + 1)
       ELSE /\ m_log' = Append(m_log, Ev("write", m_sck))
            /\ m_socks' = Complete(m_socks)
            /\ m_pc' = "write"
            /\ UNCHANGED <<m_address_it, m_sck, m_result_, m_sets>>
    /\ UNCHANGED <<m_thread, m_reply, m_rval, m_nread>>
    /\ UNCHANGED <<netVars, tVars, aVars, procVars>>

\* Mutant of M_Written: a failed send goes on to the next candidate.
M_Written_Continues ==
    /\ m_thread = "running"
    /\ m_pc = "write"
    /\ IF ~sendOk
       THEN /\ ForLoop(m_address_it + 1)
            /\ UNCHANGED m_reply
       ELSE /\ m_reply' = ZeroBuffer
            /\ m_log' = Append(m_log, Ev("read", m_sck))
            /\ m_pc' = "read"
            /\ UNCHANGED <<m_address_it, m_sck, m_result_, m_sets, m_socks>>
    /\ UNCHANGED <<m_thread, m_ec, m_rval, m_nread>>
    /\ UNCHANGED <<netVars, tVars, aVars, procVars>>

\* async_write(..., yield) returns or throws; then char reply[1024] {}, the
\* first test of while(!ec) and sck.async_read_some(reply, yield[ec]).
M_Written ==
    /\ m_thread = "running"
    /\ m_pc = "write"
    /\ IF ~sendOk
       THEN /\ Catch(SysWrite)
            /\ UNCHANGED <<m_reply, m_log>>
       ELSE /\ m_reply' = ZeroBuffer
            /\ IF m_ec = NoError
               THEN /\ m_log' = Append(m_log, Ev("read", m_sck))
                    /\ m_pc' = "read"
                    /\ UNCHANGED <<m_result_, m_sets>>
               ELSE /\ m_result_' = set_value(m_result_, m_rval)
                    /\ m_sets' = Append(m_sets, "set_value")
                    /\ m_pc' = "done"
                    /\ UNCHANGED m_log
    /\ UNCHANGED <<m_thread, m_address_it, m_sck, m_ec, m_rval, m_nread>>
    /\ m_socks' = IF m_pc' = "read" THEN m_socks ELSE Destroy(m_socks)
    /\ UNCHANGED <<netVars, tVars, aVars, procVars>>

\* async_read_some(reply, yield[ec]) returns rlen: rval.append(reply, rlen),
\* the test of while(!ec), and after the loop result_.set_value(move(rval)).
\* The moved-from rval is empty.
M_Read ==
    /\ m_thread = "running"
    /\ m_pc = "read"
    /\ LET r == ReadSome(m_nread, m_reply)
           rval == StrAppend(m_rval, r[3], r[2])
       IN /\ m_ec' = r[1]
          /\ m_reply' = r[3]
          /\ IF r[1] = NoError
             THEN /\ m_rval' = rval
                  /\ m_log' = Append(m_log, Ev("read", m_sck))
                  /\ m_pc' = "read"
                  /\ UNCHANGED <<m_result_, m_sets>>
             ELSE /\ m_result_' = set_value(m_result_, rval)
                  /\ m_sets' = Append(m_sets, "set_value")
                  /\ m_rval' = <<>>
                  /\ m_pc' = "done"
                  /\ UNCHANGED m_log
    /\ m_nread' = m_nread + 1
    /\ UNCHANGED <<m_thread, m_address_it, m_sck>>
    /\ m_socks' = IF m_pc' = "read" THEN m_socks ELSE Destroy(m_socks)
    /\ UNCHANGED <<netVars, tVars, aVars, procVars>>

\* Fetch_ has returned and nothing is pending: io_service_.run() returns
\* and the thread exits.
M_RunReturns ==
    /\ m_thread = "running"
    /\ m_pc = "done"
    /\ m_thread' \in RunOutcomes
    /\ UNCHANGED <<m_pc, m_address_it, m_sck, m_reply, m_ec, m_rval, m_result_,
                   m_sets, m_nread, m_log>>
    /\ UNCHANGED m_socks
    /\ UNCHANGED <<netVars, tVars, aVars, procVars>>

NextModern ==
    \/ M_Fetch
    \/ M_Start
    \/ M_Resolved
    \/ M_Connected
    \/ M_Written
    \/ M_Read
    \/ M_RunReturns

-----------------------------------------------------------------------------
\* The three programs, each run against the same network.

\* No main has started; nothing is written and no process has ended.
ProcInit ==
    /\ main = "start"
    /\ std_out = <<>>
    /\ std_err = <<>>
    /\ exit_code = <<>>
    /\ future = "none"

\* The three fetches side by side, without their mains.
Init == NetInit /\ T_Init /\ A_Init /\ M_Init /\ ProcInit /\ prog = "fetches"

Next == NextTrad \/ NextAsync \/ NextModern

Spec == Init /\ [][Next]_vars

\* Every blocking call returns and the event loops keep running their
\* handlers: no program stops while it has a step to take.
FairSpec ==
    /\ Spec
    /\ WF_vars(NextTrad)
    /\ WF_vars(NextAsync)
    /\ WF_vars(NextModern)

------------------------------------------------------------------------------
\* One process: main of the program prog, with the threads it starts.
\* main is where the main thread is: "start", "spawn" and "fetch" (inside
\* Request::Fetch), "wait" (at result.wait()), "get" (at result.get()),
\* "returned", or "terminated" (std::terminate). exit_code holds the value
\* main returned.

\* An exception object whose type does not derive from std::exception.
Undescribed == "(not a std::exception)"

aFetchVars == <<a_pending, a_sck_, a_io_buffer_, a_result_buffer_, a_result_,
                a_sets, a_nread, a_log, a_socks, a_request, a_wire>>
mFetchVars == <<m_address_it, m_sck, m_reply, m_ec, m_rval, m_result_,
                m_sets, m_nread, m_log, m_socks>>
outVars == <<std_out, std_err, exit_code>>

\* ---- traditional.cpp: main calls req.Fetch(argv[1]) and runs it itself.
T_Main_Call ==
    /\ prog = "traditional"
    /\ main = "start"
    /\ main' = "fetch"
    /\ UNCHANGED <<prog, outVars, future>>
    /\ UNCHANGED <<netVars, tVars, aVars, mVars>>

\* The statements of Request::Fetch, executed by the main thread.
T_Main_Resolve == prog = "traditional" /\ main = "fetch" /\ T_Resolve
T_Main_Connect == prog = "traditional" /\ main = "fetch" /\ T_Connect
T_Main_Write == prog = "traditional" /\ main = "fetch" /\ T_Write
T_Main_Read == prog = "traditional" /\ main = "fetch" /\ T_Read

\* Variant of T_Main_Return: main leaves the try block before Fetch has
\* produced its result.
T_Main_Return_Early ==
    /\ prog = "traditional"
    /\ main = "fetch"
    /\ main' = "returned"
    /\ exit_code' = Append(exit_code, 0)
    /\ UNCHANGED <<prog, std_out, std_err, future>>
    /\ UNCHANGED <<netVars, tVars, aVars, mVars>>

\* Variant of T_Main_Return: what Fetch had accumulated is printed on a
\* failure as well.
T_Main_Return_PrintsAlways ==
    /\ prog = "traditional"
    /\ main = "fetch"
    /\ t_result.state # "empty"
    /\ std_out' = Append(std_out, t_rval)
    /\ IF t_result.state = "value"
       THEN /\ std_err' = std_err
            /\ exit_code' = Append(exit_code, 0)
       ELSE /\ std_err' = Append(std_err, <<"ERROR: ", t_result.what>>)
            /\ exit_code' = Append(exit_code, -1)
    /\ main' = "returned"
    /\ UNCHANGED <<prog, future>>
    /\ UNCHANGED <<netVars, tVars, aVars, mVars>>

\* Fetch has returned or thrown: std::cout << the value; a std::exception
\* is caught and reported; there is no handler for anything else.
T_Main_Return ==
    /\ prog = "traditional"
    /\ main = "fetch"
    /\ t_result.state # "empty"
    /\ CASE t_result.state = "value" ->
              /\ std_out' = Append(std_out, t_result.value)
              /\ exit_code' = Append(exit_code, 0)
              /\ main' = "returned"
              /\ UNCHANGED std_err
         [] t_result.state = "exception" /\ t_result.what # Undescribed ->
              /\ std_err' = Append(std_err, <<"ERROR: ", t_result.what>>)
              /\ exit_code' = Append(exit_code, -1)
              /\ main' = "returned"
              /\ UNCHANGED std_out
         [] OTHER ->
              /\ main' = "terminated"
              /\ UNCHANGED outVars
    /\ UNCHANGED <<prog, future>>
    /\ UNCHANGED <<netVars, tVars, aVars, mVars>>

\* Variant of Report: one handler for every exception.
Report_TwoWay(result) ==
    /\ IF result.state = "value"
       THEN /\ std_out' = Append(std_out, result.value)
            /\ exit_code' = Append(exit_code, 0)
            /\ UNCHANGED std_err
       ELSE /\ std_err' = Append(std_err, <<"Caught exception ", result.what>>)
            /\ exit_code' = Append(exit_code, -1)
            /\ UNCHANGED std_out
    /\ main' = "returned"

\* ---- main of async.cpp and of modern.cpp, after result.wait():
\* try { std::cout << result.get(); } catch(const std::exception&) {...}
\* catch(...) {...}
Report(result) ==
    /\ CASE result.state = "value" ->
              /\ std_out' = Append(std_out, result.value)
              /\ exit_code' = Append(exit_code, 0)
              /\ UNCHANGED std_err
         [] result.state = "exception" /\ result.what # Undescribed ->
              /\ std_err' = Append(std_err, <<"Caught exception ", result.what>>)
              /\ exit_code' = Append(exit_code, -1)
              /\ UNCHANGED std_out
         [] OTHER ->
              /\ std_err' = Append(std_err, <<"Caught exception!">>)
              /\ exit_code' = Append(exit_code, -2)
              /\ UNCHANGED std_out
    /\ main' = "returned"

\* ---- async.cpp
\* Request::Fetch on the main thread: std::thread(...).detach()
A_Main_StartThread ==
    /\ prog = "async"
    /\ main = "start"
    /\ a_thread = "none"
    /\ a_thread' = "started"
    /\ main' = "fetch"
    /\ UNCHANGED <<prog, outVars, future>>
    /\ UNCHANGED aFetchVars
    /\ UNCHANGED <<netVars, tVars, mVars>>

\* The lambda, on the new thread: resolver_.async_resolve, then it enters
\* io_service_.run().
A_Lambda ==
    /\ a_thread = "started"
    /\ a_thread' = "running"
    /\ a_pending' = Pending("resolve", 0)
    /\ UNCHANGED <<a_sck_, a_io_buffer_, a_result_buffer_, a_result_, a_sets,
                   a_nread, a_log, a_socks>>
    /\ UNCHANGED <<a_request, a_wire>>
    /\ UNCHANGED <<netVars, tVars, mVars, procVars>>

\* Variant of A_Main_GetFuture: Fetch joins the thread before it returns.
A_Main_GetFuture_Joins ==
    /\ prog = "async"
    /\ main = "fetch"
    /\ a_thread = "exited"
    /\ main' = "wait"
    /\ future' = IF a_result_.state = "empty" THEN "pending" ELSE "ready"
    /\ UNCHANGED <<prog, outVars>>
    /\ UNCHANGED <<netVars, tVars, aVars, mVars>>

\* return result_.get_future();
A_Main_GetFuture ==
    /\ prog = "async"
    /\ main = "fetch"
    /\ main' = "wait"
    /\ future' = IF a_result_.state = "empty" THEN "pending" ELSE "ready"
    /\ UNCHANGED <<prog, outVars>>
    /\ UNCHANGED <<netVars, tVars, aVars, mVars>>

\* Variant of A_Main_Wait: the wait is woken only by a result that is set
\* after the future was obtained.
A_Main_Wait_MissesEarly ==
    /\ prog = "async"
    /\ main = "wait"
    /\ a_result_.state # "empty"
    /\ future = "pending"
    /\ main' = "get"
    /\ UNCHANGED <<prog, outVars, future>>
    /\ UNCHANGED <<netVars, tVars, aVars, mVars>>

\* result.wait() returns once the shared state is ready.
A_Main_Wait ==
    /\ prog = "async"
    /\ main = "wait"
    /\ a_result_.state # "empty"
    /\ main' = "get"
    /\ UNCHANGED <<prog, outVars, future>>
    /\ UNCHANGED <<netVars, tVars, aVars, mVars>>

A_Main_Get ==
    /\ prog = "async"
    /\ main = "get"
    /\ a_result_.state # "empty"
    /\ Report(a_result_)
    /\ UNCHANGED <<prog, future>>
    /\ UNCHANGED <<netVars, tVars, aVars, mVars>>

\* ---- modern.cpp
\* Request::Fetch on the main thread: boost::asio::spawn queues Fetch_.
M_Main_Spawn ==
    /\ prog = "modern"
    /\ main = "start"
    /\ m_pc = "idle"
    /\ m_pc' = "spawned"
    /\ main' = "spawn"
    /\ UNCHANGED <<prog, outVars, future>>
    /\ UNCHANGED <<m_thread, m_address_it, m_sck, m_reply, m_ec, m_rval,
                   m_result_, m_sets, m_nread, m_log, m_socks>>
    /\ UNCHANGED <<netVars, tVars, aVars>>

\* std::thread([=]() { io_service_.run(); }).detach();
M_Main_StartThread ==
    /\ prog = "modern"
    /\ main = "spawn"
    /\ m_thread = "none"
    /\ m_thread' = "running"
    /\ main' = "fetch"
    /\ UNCHANGED <<prog, outVars, future>>
    /\ UNCHANGED <<m_pc, mFetchVars>>
    /\ UNCHANGED <<netVars, tVars, aVars>>

\* return result_.get_future();
M_Main_GetFuture ==
    /\ prog = "modern"
    /\ main = "fetch"
    /\ main' = "wait"
    /\ future' = IF m_result_.state = "empty" THEN "pending" ELSE "ready"
    /\ UNCHANGED <<prog, outVars>>
    /\ UNCHANGED <<netVars, tVars, aVars, mVars>>

M_Main_Wait ==
    /\ prog = "modern"
    /\ main = "wait"
    /\ m_result_.state # "empty"
    /\ main' = "get"
    /\ UNCHANGED <<prog, outVars, future>>
    /\ UNCHANGED <<netVars, tVars, aVars, mVars>>

M_Main_Get ==
    /\ prog = "modern"
    /\ main = "get"
    /\ m_result_.state # "empty"
    /\ Report(m_result_)
    /\ UNCHANGED <<prog, future>>
    /\ UNCHANGED <<netVars, tVars, aVars, mVars>>

\* One of the three programs is run.
ProgInit ==
    /\ NetInit /\ T_Init /\ A_Init /\ M_Init /\ ProcInit
    /\ prog \in {"traditional", "async", "modern"}

ProgNext ==
    \/ T_Main_Call
    \/ T_Main_Resolve
    \/ T_Main_Connect
    \/ T_Main_Write
    \/ T_Main_Read
    \/ T_Main_Return
    \/ A_Main_StartThread
    \/ A_Lambda
    \/ A_Main_GetFuture
    \/ A_Main_Wait
    \/ A_Main_Get
    \/ A_Resolved
    \/ A_Posted
    \/ A_Connected
    \/ A_SentRequest
    \/ A_DataRead
    \/ A_RunReturns
    \/ M_Main_Spawn
    \/ M_Main_StartThread
    \/ M_Main_GetFuture
    \/ M_Main_Wait
    \/ M_Main_Get
    \/ M_Start
    \/ M_Resolved
    \/ M_Connected
    \/ M_Written
    \/ M_Read
    \/ M_RunReturns

ProgSpec == ProgInit /\ [][ProgNext]_vars

\* The steps of the main thread and those of the worker thread.
ProgMain ==
    \/ T_Main_Call \/ T_Main_Resolve \/ T_Main_Connect \/ T_Main_Write
    \/ T_Main_Read \/ T_Main_Return
    \/ A_Main_StartThread \/ A_Main_GetFuture \/ A_Main_Wait \/ A_Main_Get
    \/ M_Main_Spawn \/ M_Main_StartThread \/ M_Main_GetFuture \/ M_Main_Wait
    \/ M_Main_Get
ProgWorker ==
    \/ A_Lambda \/ A_Resolved \/ A_Posted \/ A_Connected \/ A_SentRequest
    \/ A_DataRead \/ A_RunReturns
    \/ M_Start \/ M_Resolved \/ M_Connected \/ M_Written \/ M_Read
    \/ M_RunReturns

\* Both threads are scheduled, and every operation completes: neither
\* thread stops while it has a step to take.
FairProgSpec == ProgSpec /\ WF_vars(ProgMain) /\ WF_vars(ProgWorker)

------------------------------------------------------------------------------
\* main alone: what each main does with whatever its fetch hands it. The
\* fetch has finished before main looks; its result is drawn from every
\* value and every exception a std::future<std::string> or a throwing call
\* can deliver.

Responses == {[k \in 1..n |-> k] : n \in 0..(MaxReads * IoBufferSize)}
Whats == {SysResolve, SysConnect, SysWrite, TradNoAddress, AsyncNoResolve,
          AsyncNoSend, ModernNoHost, Undescribed}
FetchResults == {Value(r) : r \in Responses} \cup {Exception(w) : w \in Whats}

SetCall(r) == IF r.state = "value" THEN "set_value" ELSE "set_exception"

T_Finished(r) ==
    /\ t_pc = "done"
    /\ t_result = r
    /\ t_address_it = 0 /\ t_sck = 0 /\ t_reply = ZeroBuffer /\ t_ec = NoError
    /\ t_rval = <<>> /\ t_nread = 0 /\ t_log = <<>> /\ t_socks = <<>>

A_Finished(r) ==
    /\ a_thread = "exited"
    /\ a_pending = None
    /\ a_result_ = r
    /\ a_sets = <<SetCall(r)>>
    /\ a_sck_ = 0 /\ a_io_buffer_ = ZeroBuffer /\ a_result_buffer_ = <<>>
    /\ a_nread = 0 /\ a_log = <<>> /\ a_socks = <<>>
    /\ a_request = "none" /\ a_wire = "none"

M_Finished(r) ==
    /\ m_thread = "exited"
    /\ m_pc = "done"
    /\ m_result_ = r
    /\ m_sets = <<SetCall(r)>>
    /\ m_address_it = 0 /\ m_sck = 0 /\ m_reply = ZeroBuffer /\ m_ec = NoError
    /\ m_rval = <<>> /\ m_nread = 0 /\ m_log = <<>> /\ m_socks = <<>>

MainInit ==
    /\ resolveErr = FALSE /\ connOk = <<>> /\ sendOk = TRUE
    /\ reads = <<>> /\ endErr = Eof
    /\ main = "fetch" /\ std_out = <<>> /\ std_err = <<>> /\ exit_code = <<>>
    /\ future = "none"
    /\ prog \in {"traditional", "async", "modern"}
    /\ \E r \in FetchResults :
           /\ IF prog = "traditional" THEN T_Finished(r) ELSE T_Init
           /\ IF prog = "async" THEN A_Finished(r) ELSE A_Init
           /\ IF prog = "modern" THEN M_Finished(r) ELSE M_Init

MainNext ==
    \/ T_Main_Return
    \/ A_Main_GetFuture
    \/ A_Main_Wait
    \/ A_Main_Get
    \/ M_Main_GetFuture
    \/ M_Main_Wait
    \/ M_Main_Get

MainSpec == MainInit /\ [][MainNext]_vars

-----------------------------------------------------------------------------
\* Vocabulary of the claims

\* The failure categories of the error taxonomy, by the exception that
\* reaches the caller.
Category(what) ==
    CASE what \in {SysResolve, AsyncNoResolve} -> "ResolutionError"
      [] what \in {SysConnect, TradNoAddress, ModernNoHost} -> "AllConnectionsFailedError"
      [] what \in {SysWrite, AsyncNoSend} -> "TransferError"
      [] OTHER -> "other"

\* What the caller gets: the response bytes, or the category of the failure.
Outcome(r) ==
    CASE r.state = "value" -> <<"success", r.value>>
      [] r.state = "exception" -> <<"failure", Category(r.what)>>
      [] OTHER -> <<"pending">>

Failure(cat) == <<"failure", cat>>
Success(bytes) == <<"success", bytes>>

Variants == {"traditional", "async", "modern"}
Result(v) == CASE v = "traditional" -> t_result
               [] v = "async" -> a_result_
               [] v = "modern" -> m_result_
Log(v) == CASE v = "traditional" -> t_log
            [] v = "async" -> a_log
            [] v = "modern" -> m_log
\* Reads completed on the connection, the one that ended the stream included.
NRead(v) == CASE v = "traditional" -> t_nread
              [] v = "async" -> a_nread
              [] v = "modern" -> m_nread
Done(v) == Result(v).state # "empty"
AllDone == \A v \in Variants : Done(v)

Events(log, op) == {k \in 1..Len(log) : log[k][1] = op}
AllRefuse == connOk # <<>> /\ \A i \in 1..Len(connOk) : ~connOk[i]
\* The stream has ended: the read that reports endErr has completed.
StreamEnded(v) == NRead(v) > Len(reads)

-----------------------------------------------------------------------------
\* C1: for the same resolver answer and the same network behaviour the three
\* variants deliver the same outcome to their caller: the same response
\* bytes, or a failure of the same category.
C1_SameOutcome ==
    AllDone => /\ Outcome(t_result) = Outcome(a_result_)
               /\ Outcome(a_result_) = Outcome(m_result_)

\* C2: in async.cpp and modern.cpp the promise result_ receives at most one
\* of set_value and set_exception, at most once, and holds exactly what
\* that one call gave it.
C2_ResultOnce ==
    /\ Len(a_sets) <= 1
    /\ Len(m_sets) <= 1
    /\ a_result_.state = "empty" <=> a_sets = <<>>
    /\ m_result_.state = "empty" <=> m_sets = <<>>
    /\ a_result_.state = "value" <=> a_sets = <<"set_value">>
    /\ m_result_.state = "value" <=> m_sets = <<"set_value">>
    /\ a_result_.state = "exception" <=> a_sets = <<"set_exception">>
    /\ m_result_.state = "exception" <=> m_sets = <<"set_exception">>

C2_Witness ==
    /\ a_sets = <<"set_value">>
    /\ m_sets = <<"set_value">>
    /\ Len(a_result_.value) > 0
    /\ a_thread = "exited"
    /\ m_thread = "exited"

\* C3: when every started operation completes and the peer closes the
\* connection, every fetch eventually delivers a value or a failure.
C3_EventuallyResult == <>AllDone

C3_Witness ==
    /\ AllDone
    /\ Len(connOk) = 2
    /\ ~connOk[1]
    /\ Len(reads) = MaxReads

\* C4: when every candidate of a non-empty list fails to connect, every
\* variant fails with the all-candidates-failed error.
C4_AllCandidatesFailed ==
    AllRefuse =>
        \A v \in Variants :
            Done(v) => Outcome(Result(v)) = Failure("AllConnectionsFailedError")

\* C5: when the resolver reports an error every variant fails with a
\* resolution error, attempts no connection and sends no request.
C5_ResolutionError ==
    resolveErr =>
        \A v \in Variants :
            /\ Log(v) = <<>>
            /\ Done(v) => Outcome(Result(v)) = Failure("ResolutionError")

C5_Witness == resolveErr /\ AllDone

\* C6: when leading candidates refuse and a later one accepts, the request
\* goes to that later candidate and to no other, no connect failure reaches
\* the caller (a fetch that fails then fails on the transfer), and, the
\* request sent, the fetch succeeds with exactly the bytes read from that
\* connection.
LaterAccepts == ~resolveErr /\ 1 < FirstOk(1) /\ FirstOk(1) < End

C6_LaterCandidate ==
    LaterAccepts =>
        \A v \in Variants :
            /\ \A k \in 1..Len(Log(v)) :
                  Log(v)[k][1] \in {"write", "read"} => Log(v)[k][2] = FirstOk(1)
            /\ Done(v) =>
                  /\ Events(Log(v), "write") # {}
                  /\ Outcome(Result(v)) =
                        IF sendOk THEN Success(Stream) ELSE Failure("TransferError")

C6_Witness ==
    /\ LaterAccepts
    /\ sendOk
    /\ reads # <<>>
    /\ \A v \in Variants : Outcome(Result(v)) = Success(Stream)

\* C7: on success the response is the concatenation, in order, of the chunks
\* the reads returned, also when the buffer still holds bytes of an earlier,
\* longer chunk; until then the accumulated bytes are a prefix of it.
IsPrefix(a, b) == Len(a) <= Len(b) /\ a = SubSeq(b, 1, Len(a))

C7_Concatenation ==
    /\ \A v \in Variants : Result(v).state = "value" => Result(v).value = Stream
    /\ IsPrefix(t_rval, Stream)
    /\ IsPrefix(a_result_buffer_, Stream)
    /\ IsPrefix(m_rval, Stream)

C7_Witness ==
    /\ Len(reads) = 2
    /\ reads[2] < reads[1]
    /\ \A v \in Variants : Result(v).state = "value"

\* C8, as claimed: a read error other than end-of-stream makes the fetch
\* fail with TransferError.
C8_ReadErrorFails ==
    endErr = Reset =>
        \A v \in Variants :
            StreamEnded(v) /\ Done(v) => Outcome(Result(v)) = Failure("TransferError")

\* C8, amended: a read error other than end-of-stream ends the fetch like
\* end-of-stream does, as a success carrying the bytes accumulated so far.
C8_ReadErrorEndsFetch ==
    endErr = Reset =>
        \A v \in Variants :
            StreamEnded(v) => Outcome(Result(v)) = Success(Stream)

C8_Witness ==
    /\ endErr = Reset
    /\ reads # <<>>
    /\ \A v \in Variants : StreamEnded(v) /\ Done(v)

\* C9: when sending the request fails the fetch fails with TransferError,
\* no read is started and no further candidate is tried: the send is the
\* last step taken.
C9_SendFails ==
    ~sendOk =>
        \A v \in Variants :
            /\ Events(Log(v), "read") = {}
            /\ \A k \in Events(Log(v), "write") : k = Len(Log(v))
            /\ Done(v) /\ Events(Log(v), "write") # {} =>
                  Outcome(Result(v)) = Failure("TransferError")

C9_Witness ==
    /\ ~sendOk
    /\ Len(connOk) = 2
    /\ connOk[1]
    /\ \A v \in Variants : Done(v) /\ Events(Log(v), "write") # {}

\* C10: a read that reports end-of-stream completes the fetch as a success
\* with the bytes accumulated so far, the empty response included, and it
\* is the last step: no candidate is tried after it.
C10_EndOfStream ==
    endErr = Eof =>
        \A v \in Variants :
            StreamEnded(v) =>
                /\ Result(v) = Value(Stream)
                /\ Log(v)[Len(Log(v))][1] = "read"
                /\ Cardinality(Events(Log(v), "write")) = 1
                /\ \A c \in Events(Log(v), "connect") :
                      \A w \in Events(Log(v), "write") : c < w

C10_Witness ==
    /\ endErr = Eof
    /\ reads = <<>>
    /\ Len(connOk) = 2
    /\ connOk[1]
    /\ \A v \in Variants : StreamEnded(v) /\ Result(v) = Value(<<>>)

\* C16, as claimed: when the resolver answers the empty candidate list
\* without an error, every variant fails with a resolution error.
C16_EmptyListIsResolutionError ==
    ~resolveErr /\ connOk = <<>> =>
        \A v \in Variants :
            Done(v) => Outcome(Result(v)) = Failure("ResolutionError")

\* C17: the candidates are tried in resolver order, forward only: the k-th
\* connection attempt goes to candidate k, so no candidate is tried twice,
\* and every attempt but the last one has failed, so candidate i+1 is tried
\* only after candidate i failed and none is tried after one that connects.
Connects(v) == SelectSeq(Log(v), LAMBDA e : e[1] = "connect")

C17_ForwardOnly ==
    \A v \in Variants :
        \A k \in 1..Len(Connects(v)) :
            /\ Connects(v)[k][2] = k
            /\ k < Len(Connects(v)) => ~connOk[k]

C17_Witness ==
    /\ connOk = <<FALSE, TRUE>>
    /\ \A v \in Variants : Done(v) /\ Len(Connects(v)) = 2

\* C19: within one fetch nothing is connected before the resolution has
\* completed, a connect follows only the failed connect of the candidate
\* before it, the request is sent once, right after the connect that
\* succeeded and on that connection, and a read follows only the
\* successful send or an earlier read on that connection.
Resolving(v) ==
    CASE v = "traditional" -> t_pc = "resolve"
      [] v = "async" -> a_thread = "none" \/ a_pending.op = "resolve"
      [] v = "modern" -> m_pc \in {"idle", "spawned", "resolve"}

C19_StepOrder ==
    \A v \in Variants :
        /\ Resolving(v) \/ resolveErr => Log(v) = <<>>
        /\ Cardinality(Events(Log(v), "write")) <= 1
        /\ \A k \in 1..Len(Log(v)) :
              LET e == Log(v)[k]
                  prev == Log(v)[k - 1]
              IN CASE e[1] = "connect" ->
                        k > 1 => prev[1] = "connect" /\ prev[2] = e[2] - 1
                                                    /\ ~connOk[prev[2]]
                   [] e[1] = "write" ->
                        k > 1 /\ prev = Ev("connect", e[2]) /\ connOk[e[2]]
                   [] e[1] = "read" ->
                        k > 1 /\ prev[1] \in {"write", "read"} /\ prev[2] = e[2]
                              /\ sendOk

C19_Witness ==
    /\ connOk = <<FALSE, TRUE>>
    /\ Len(reads) = 2
    /\ \A v \in Variants : Len(Log(v)) = 6

\* C20: in async.cpp and modern.cpp, once the result is set nothing is
\* pending in the io_service, so run() can return and the thread exit; as
\* long as the result is not set the running event loop holds an operation
\* or a task, and it has not returned.
C20_LoopEndsWithResult ==
    /\ a_result_.state # "empty" => a_pending = None
    /\ a_result_.state # "empty" /\ a_thread = "running" => ENABLED A_RunReturns
    /\ a_result_.state = "empty" /\ a_thread = "running" =>
          a_pending # None /\ ~ENABLED A_RunReturns
    /\ a_thread = "exited" => a_result_.state # "empty"
    /\ m_result_.state # "empty" => m_pc = "done"
    /\ m_result_.state # "empty" /\ m_thread = "running" => ENABLED M_RunReturns
    /\ m_result_.state = "empty" /\ m_thread = "running" =>
          /\ m_pc \in {"spawned", "resolve", "connect", "write", "read"}
          /\ ~ENABLED M_RunReturns
    /\ m_thread = "exited" => m_result_.state # "empty"

C20_Witness ==
    /\ a_result_.state = "exception"
    /\ m_result_.state = "exception"
    /\ a_thread = "exited"
    /\ m_thread = "exited"
    /\ a_log # <<>>

Socks(v) ==
    CASE v = "traditional" -> t_socks
      [] v = "async" -> a_socks
      [] v = "modern" -> m_socks

\* C18: at every moment a fetch owns at most one socket and has at most one
\* connect outstanding; a socket is only replaced after its connect has
\* completed, so the outstanding connect is always on the newest socket and
\* that socket still exists.
C18_OneSocket ==
    \A v \in Variants :
        LET socks == Socks(v) IN
        /\ Cardinality({k \in DOMAIN socks : socks[k].live}) <= 1
        /\ Cardinality({k \in DOMAIN socks : socks[k].connecting}) <= 1
        /\ \A k \in DOMAIN socks :
               /\ socks[k].connecting => socks[k].live /\ k = Len(socks)
               /\ socks[k].live => k = Len(socks)

\* The callback variant and the coroutine have replaced the socket of a
\* failed attempt and have a connect outstanding on the new one.
C18_Witness ==
    /\ Len(a_socks) = 2 /\ a_socks[2].connecting /\ ~a_socks[1].live
    /\ Len(m_socks) = 2 /\ m_socks[2].connecting /\ ~m_socks[1].live

\* C11: the caller never observes a partial response. main gets past
\* result.wait() only when completion has been signalled, what it prints is
\* the value handed over and is the whole response, and once completion is
\* signalled no step changes the value handed over or the buffer it was
\* accumulated in.
C11_NoPartialResponse ==
    /\ [](main \in {"get", "returned"} => Result(prog).state # "empty")
    /\ [](std_out # <<>> =>
              /\ Result(prog).state = "value"
              /\ std_out = <<Result(prog).value>>
              /\ std_out[1] = Stream)
    /\ [][/\ t_result.state # "empty" => t_result' = t_result /\ t_rval' = t_rval
          /\ a_result_.state # "empty" =>
                 a_result_' = a_result_ /\ a_result_buffer_' = a_result_buffer_
          /\ m_result_.state # "empty" => m_result_' = m_result_ /\ m_rval' = m_rval
         ]_vars

\* The callback program has printed a response that arrived in two chunks,
\* read by main while the worker thread was still running.
C11_Witness ==
    /\ prog = "async"
    /\ Len(reads) = 2
    /\ main = "returned"
    /\ std_out = <<Stream>>
    /\ a_thread = "running"

\* C12: in async.cpp and modern.cpp Fetch returns the future without
\* waiting for the network: no statement of Fetch on the main thread is ever
\* blocked, and main can be blocked only at result.wait(), while the result
\* is not set. Every network step and every handler is a step of the worker
\* thread, taken while that thread runs, and moves main nowhere.
C12_FetchDoesNotWait ==
    /\ [](prog = "async" /\ main = "start" => ENABLED A_Main_StartThread)
    /\ [](prog = "async" /\ main = "fetch" => ENABLED A_Main_GetFuture)
    /\ [](prog = "modern" /\ main = "start" => ENABLED M_Main_Spawn)
    /\ [](prog = "modern" /\ main = "spawn" => ENABLED M_Main_StartThread)
    /\ [](prog = "modern" /\ main = "fetch" => ENABLED M_Main_GetFuture)
    /\ [](prog = "async" /\ main = "get" => ENABLED A_Main_Get)
    /\ [](prog = "modern" /\ main = "get" => ENABLED M_Main_Get)
    /\ [](prog = "async" /\ main = "wait" =>
              (ENABLED A_Main_Wait <=> a_result_.state # "empty"))
    /\ [](prog = "modern" /\ main = "wait" =>
              (ENABLED M_Main_Wait <=> m_result_.state # "empty"))
    /\ [][/\ a_log' # a_log \/ a_pending' # a_pending \/ a_result_' # a_result_ =>
                 a_thread \in {"started", "running"} /\ main' = main
          /\ m_log' # m_log \/ m_result_' # m_result_
                 \/ (m_pc' # m_pc /\ m_pc # "idle") =>
                 m_thread = "running" /\ main' = main
         ]_vars

\* Fetch has returned the future to main before the new thread has even
\* asked for the resolution.
C12_Witness ==
    /\ prog = "async"
    /\ main = "wait"
    /\ a_thread = "started"
    /\ a_log = <<>>

\* C13, as claimed: the traditional fetch runs on a worker thread of its
\* own, so each of its steps is taken while the caller is outside Fetch,
\* waiting at the handoff.
C13_DedicatedWorker ==
    [][t_pc' # t_pc => main = "wait"]_vars

\* C13, amended: traditional.cpp starts no thread and has no handoff. Every
\* statement of the fetch is a step of the main thread inside its call of
\* Fetch, main never waits at a future, and it goes on only when Fetch has
\* returned its value or thrown, which it then uses once.
C13_RunsOnCaller ==
    /\ [][t_pc' # t_pc =>
              prog = "traditional" /\ main = "fetch" /\ main' = "fetch"]_vars
    /\ [](prog = "traditional" =>
              /\ main \notin {"spawn", "wait", "get"}
              /\ main \in {"returned", "terminated"} => t_result.state # "empty"
              /\ main = "start" => t_pc = "resolve"
              /\ Len(std_out) + Len(std_err) <= 1)

\* main of traditional.cpp is inside Fetch and has completed a read itself.
C13_Witness ==
    /\ prog = "traditional"
    /\ main = "fetch"
    /\ t_pc = "read"
    /\ t_nread = 1

\* The exit code of the three-way outcome for what the fetch handed over.
ThreeWay(r) ==
    CASE r.state = "value" -> 0
      [] r.state = "exception" /\ r.what # Undescribed -> -1
      [] OTHER -> -2

MainEnded == main \in {"returned", "terminated"}

C21_NoAccessAfterDestroy ==
    /\ ReqDestroyed /\ prog = "async" => a_thread = "exited"
    /\ ReqDestroyed /\ prog = "modern" => m_thread = "exited"

\* C22: in async.cpp the request bytes given to async_write stay alive and
\* unchanged while the write is pending, so the bytes that reach the wire
\* are the request.
C22_RequestStaysAlive ==
    /\ a_pending.op = "write" => a_request = "alive"
    /\ a_wire \in {"none", "request"}

Handoff == prog \in {"async", "modern"}
Sets(v) == IF v = "async" THEN a_sets ELSE m_sets

\* What main of async.cpp and modern.cpp does with the result r it got.
Delivered(r) ==
    IF r.state = "value"
    THEN std_out = <<r.value>> /\ std_err = <<>> /\ exit_code = <<0>>
    ELSE /\ std_out = <<>>
         /\ std_err = <<<<"Caught exception ", r.what>>>>
         /\ exit_code = <<-1>>

\* C23: the handoff of async.cpp and modern.cpp loses no outcome whatever
\* the timing. Whether the worker sets the promise before Fetch has called
\* get_future() or after it, main's get() comes, and it delivers the one
\* value or exception that was set, once.
C23_HandoffLosesNothing ==
    /\ [](Handoff /\ main = "returned" =>
              /\ Len(Sets(prog)) = 1
              /\ Result(prog).state # "empty"
              /\ Delivered(Result(prog)))
    /\ [](Handoff /\ main \in {"start", "spawn", "fetch"} => future = "none")
    /\ [](Handoff /\ main \in {"wait", "get", "returned"} =>
              future \in {"pending", "ready"})
    /\ (Handoff /\ Result(prog).state # "empty" /\ main = "fetch")
           ~> (main = "returned" /\ future = "ready")
    /\ (Handoff /\ Result(prog).state # "empty" /\ main = "wait")
           ~> (main = "returned")
    /\ (Handoff /\ Result(prog).state = "empty" /\ main = "wait")
           ~> (main = "returned" /\ future = "pending")

\* The worker had set the value before Fetch called get_future(), and main
\* has printed it.
C23_Witness ==
    /\ prog = "async"
    /\ future = "ready"
    /\ main = "returned"
    /\ Len(reads) = 2
    /\ std_out = <<Stream>>

====
